---------------------------- MODULE Spec2Model ----------------------------
(***************************************************************************)
(* A model of limits-rs: the parser of /proc/<pid>/limits                  *)
(* (src/src/linux/mod.rs), the placeholder of the other platforms          *)
(* (src/src/default/mod.rs) and the entry points of src/src/lib.rs.        *)
(*                                                                         *)
(* Text is a TLA+ string; Len, Head, Tail, SubSeq and \o act on strings as *)
(* on sequences of one-character strings.  The alphabet is ASCII.  A u32   *)
(* is a record [hi, lo] of its two 16-bit halves (value = hi * 65536 + lo),*)
(* because the integers of TLC are narrower than 2^32.                     *)
(***************************************************************************)
EXTENDS Integers, Sequences, FiniteSets, TLC

VARIABLES
    platform,   \* "linux" | "other": the cfg(target_os) of the build
    entry,      \* the public function that was called
    args,       \* its arguments: [pid, name, soft, hard]
    proc,       \* the resource /proc/<pid>/limits: [exists, content]
    self,       \* the record set_property_from_strings is called on, before the call
    pc,         \* the position of the call
    lines,      \* what is left of the `lines` iterator (before filter_map)
    limits,     \* the local `limits` of get_limits_from_reader / `self` after the call
    opens,      \* the number of File::open calls made
    result      \* what the call returned

vars == <<platform, entry, args, proc, self, pc, lines, limits, opens, result>>

---------------------------------------------------------------------------
(* Option<T> *)

None == <<>>

Some(v) == <<v>>

(* u32 as two 16-bit halves *)

U32(hi, lo) == [hi |-> hi, lo |-> lo]

Small(n) == U32(0, n)

(* A multiplication by 10 that wraps around instead of failing
   (u32::wrapping_mul). *)
wrapping_mul10(v) ==
    LET lo10 == v.lo * 10
        hi10 == v.hi * 10 + (lo10 \div 65536)
    IN  Some(U32(hi10 % 65536, lo10 % 65536))

(* u32::checked_mul(self, 10) *)
checked_mul10(v) ==
    LET lo10 == v.lo * 10
        hi10 == v.hi * 10 + (lo10 \div 65536)
    IN  IF hi10 >= 65536 THEN None ELSE Some(U32(hi10, lo10 % 65536))

(* u32::checked_add(self, d) for a digit d *)
checked_add(v, d) ==
    LET lo1 == v.lo + d
        hi1 == v.hi + (lo1 \div 65536)
    IN  IF hi1 >= 65536 THEN None ELSE Some(U32(hi1, lo1 % 65536))

---------------------------------------------------------------------------
(* Characters *)

UpperCase == "ABCDEFGHIJKLMNOPQRSTUVWXYZ"

LowerCase == "abcdefghijklmnopqrstuvwxyz"

Digits == "0123456789"

\* The position of character c in text s, 0 when it is not there.
RECURSIVE IndexOf(_, _, _)
IndexOf(s, c, i) ==
    IF i > Len(s) THEN 0
    ELSE IF SubSeq(s, i, i) = c THEN i
    ELSE IndexOf(s, c, i + 1)

\* The characters of text s
CharsOf(s) == {SubSeq(s, i, i) : i \in 1..Len(s)}

\* The lower-case letter of each upper-case letter
LowerOfUpper ==
    [c \in CharsOf(UpperCase) |->
        SubSeq(LowerCase, IndexOf(UpperCase, c, 1), IndexOf(UpperCase, c, 1))]

\* The upper-case letter of each lower-case letter
UpperOfLower ==
    [c \in CharsOf(LowerCase) |->
        SubSeq(UpperCase, IndexOf(LowerCase, c, 1), IndexOf(LowerCase, c, 1))]

\* The value of each decimal digit
DigitValue == [c \in CharsOf(Digits) |-> IndexOf(Digits, c, 1) - 1]

\* char::to_lowercase
char_to_lowercase(c) ==
    IF c \in DOMAIN LowerOfUpper THEN LowerOfUpper[c] ELSE c

\* char::to_digit(10): Some(0..9) or None
to_digit(c) ==
    IF c \in DOMAIN DigitValue THEN Some(DigitValue[c]) ELSE None

\* char::is_whitespace
is_whitespace(c) == c \in {" ", "\t"}

---------------------------------------------------------------------------
(* Text *)

\* str::to_lowercase
RECURSIVE to_lowercase(_)
to_lowercase(s) ==
    IF s = "" THEN ""
    ELSE char_to_lowercase(Head(s)) \o to_lowercase(Tail(s))

\* str::trim_start
RECURSIVE trim_start(_)
trim_start(s) ==
    IF s = "" THEN ""
    ELSE IF is_whitespace(Head(s)) THEN trim_start(Tail(s))
    ELSE s

\* str::trim_end
RECURSIVE trim_end(_)
trim_end(s) ==
    IF s = "" THEN ""
    ELSE IF is_whitespace(SubSeq(s, Len(s), Len(s)))
         THEN trim_end(SubSeq(s, 1, Len(s) - 1))
    ELSE s

\* str::trim
trim(s) == trim_end(trim_start(s))

\* The length of the longest prefix of s without whitespace.
RECURSIVE WordLen(_)
WordLen(s) ==
    IF s = "" THEN 0
    ELSE IF is_whitespace(Head(s)) THEN 0
    ELSE 1 + WordLen(Tail(s))

\* str::split_whitespace().collect(): the non-empty maximal runs without
\* whitespace, in order.
RECURSIVE split_whitespace(_)
split_whitespace(s) ==
    LET t == trim_start(s)
        n == WordLen(t)
    IN  IF t = "" THEN <<>>
        ELSE <<SubSeq(t, 1, n)>> \o split_whitespace(SubSeq(t, n + 1, Len(t)))

\* The digit loop of u32::from_str: result = result.checked_mul(10)?
\* .checked_add(digit)?, a character that is no digit is an error.
RECURSIVE from_digits(_, _)
from_digits(digits, acc) ==
    IF digits = "" THEN Some(acc)
    ELSE LET d == to_digit(Head(digits))
             m == checked_mul10(acc)
             a == IF m = None \/ d = None THEN None ELSE checked_add(m[1], d[1])
         IN  IF a = None THEN None ELSE from_digits(Tail(digits), a[1])

\* u32::from_str(src).ok(): an empty text, a lone sign, a character that is
\* no decimal digit and a value above u32::MAX are errors; one leading '+'
\* is accepted, a leading '-' is not (u32 is unsigned).
u32_from_str(src) ==
    IF src = "" THEN None
    ELSE IF src \in {"+", "-"} THEN None
    ELSE IF Head(src) = "+" THEN from_digits(Tail(src), Small(0))
    ELSE from_digits(src, Small(0))

---------------------------------------------------------------------------
(* Limit and Limits *)

Limit(soft, hard) == [soft |-> soft, hard |-> hard]

\* #[derive(Default)] of Limit
DefaultLimit == Limit(None, None)

\* The fields of struct Limits, in declaration order.
Fields ==
    << "max_cpu_time", "max_file_size", "max_data_size", "max_stack_size",
       "max_core_file_size", "max_resident_set", "max_processes",
       "max_open_files", "max_locked_memory", "max_address_space",
       "max_file_locks", "max_pending_signals", "max_msgqueue_size",
       "max_nice_priority", "max_realtime_priority", "max_realtime_timeout" >>

FieldSet == {Fields[i] : i \in 1..Len(Fields)}

\* #[derive(Default)] of Limits
DefaultLimits == [f \in FieldSet |-> DefaultLimit]

NoField == ""

\* The match with the file-size arm spelled "max file size".
MatchArmSpaced(lower_case) ==
    CASE lower_case = "max cpu time" -> "max_cpu_time"
      [] lower_case = "max file size" -> "max_file_size"
      [] lower_case = "max data size" -> "max_data_size"
      [] lower_case = "max stack size" -> "max_stack_size"
      [] lower_case = "max core file size" -> "max_core_file_size"
      [] lower_case = "max resident set" -> "max_resident_set"
      [] lower_case = "max processes" -> "max_processes"
      [] lower_case = "max open files" -> "max_open_files"
      [] lower_case = "max locked memory" -> "max_locked_memory"
      [] lower_case = "max address space" -> "max_address_space"
      [] lower_case = "max file locks" -> "max_file_locks"
      [] lower_case = "max pending signals" -> "max_pending_signals"
      [] lower_case = "max msgqueue size" -> "max_msgqueue_size"
      [] lower_case = "max nice priority" -> "max_nice_priority"
      [] lower_case = "max realtime priority" -> "max_realtime_priority"
      [] lower_case = "max realtime timeout" -> "max_realtime_timeout"
      [] OTHER -> NoField

\* The match of set_property_from_strings: the field an arm assigns,
\* NoField for the arm `_ => ()`.
MatchArm(lower_case) ==
    CASE lower_case = "max cpu time" -> "max_cpu_time"
      [] lower_case = "max file_size" -> "max_file_size"
      [] lower_case = "max data size" -> "max_data_size"
      [] lower_case = "max stack size" -> "max_stack_size"
      [] lower_case = "max core file size" -> "max_core_file_size"
      [] lower_case = "max resident set" -> "max_resident_set"
      [] lower_case = "max processes" -> "max_processes"
      [] lower_case = "max open files" -> "max_open_files"
      [] lower_case = "max locked memory" -> "max_locked_memory"
      [] lower_case = "max address space" -> "max_address_space"
      [] lower_case = "max file locks" -> "max_file_locks"
      [] lower_case = "max pending signals" -> "max_pending_signals"
      [] lower_case = "max msgqueue size" -> "max_msgqueue_size"
      [] lower_case = "max nice priority" -> "max_nice_priority"
      [] lower_case = "max realtime priority" -> "max_realtime_priority"
      [] lower_case = "max realtime timeout" -> "max_realtime_timeout"
      [] OTHER -> NoField

\* `let soft = if soft_string == "unlimited" { None } else
\* { u32::from_str(soft_string).ok() }`, and the same for hard.
parse_side(token) ==
    IF token = "unlimited" THEN None ELSE u32_from_str(token)

\* The name matched as it is given.
name_verbatim(name) == name

\* `let lower_case = name.to_lowercase()`
lower_case_of(name) == to_lowercase(name)

\* set_property_from_strings with a last arm that assigns too: an unknown
\* label lands in the first field.
set_property_unknown_assigns(rec, name, soft_string, hard_string) ==
    LET new_limit == Limit(parse_side(soft_string), parse_side(hard_string))
        field == MatchArm(lower_case_of(name))
    IN  IF field = NoField THEN [rec EXCEPT !["max_cpu_time"] = new_limit]
        ELSE [rec EXCEPT ![field] = new_limit]

\* set_property_from_strings that keeps a side already set when the new
\* side is none, instead of assigning the whole Limit.
set_property_merging(rec, name, soft_string, hard_string) ==
    LET soft == parse_side(soft_string)
        hard == parse_side(hard_string)
        field == MatchArm(lower_case_of(name))
    IN  IF field = NoField THEN rec
        ELSE [rec EXCEPT ![field] =
                 Limit(IF soft = None THEN rec[field].soft ELSE soft,
                       IF hard = None THEN rec[field].hard ELSE hard)]

\* Limits::set_property_from_strings: the record after the call.
set_property_from_strings(rec, name, soft_string, hard_string) ==
    LET lower_case == lower_case_of(name)
        new_limit == Limit(parse_side(soft_string), parse_side(hard_string))
        field == MatchArm(lower_case)
    IN  IF field = NoField THEN rec ELSE [rec EXCEPT ![field] = new_limit]

---------------------------------------------------------------------------
(* Results *)

NoResult == [kind |-> "none", value |-> <<>>]

\* Ok(limits)
Ok(l) == [kind |-> "Ok", value |-> <<l>>]

\* Err(crate::Error::UnsupportedOS)
UnsupportedOS == [kind |-> "Err", value |-> <<"UnsupportedOS">>]

\* Err(crate::Error::ProcFileNotFound(file_path, io_error))
ProcFileNotFound(file_path, io_error) ==
    [kind |-> "Err", value |-> <<"ProcFileNotFound", file_path, io_error>>]

\* The call did not return: the thread panicked at `site`.
Panicked(site) == [kind |-> "panic", value |-> <<site>>]

---------------------------------------------------------------------------
(* The lines of a reader *)

\* An item of std::io::BufRead::lines: Ok(text), the line without its
\* line ending, or Err(_), a line that is not valid UTF-8 (its bytes are
\* consumed, and the iterator goes on with the next line).
Line(text) == [ok |-> TRUE, text |-> text]

BadLine == [ok |-> FALSE, text |-> ""]

\* What `.filter_map(Result::ok)` leaves of the items: from the first
\* Ok item on.
RECURSIVE filter_map_ok(_)
filter_map_ok(items) ==
    IF items = <<>> THEN <<>>
    ELSE IF Head(items).ok THEN items
    ELSE filter_map_ok(Tail(items))

\* The items left after `lines.next()`, the result of which is dropped.
skip_header(items) ==
    LET rest == filter_map_ok(items)
    IN  IF rest = <<>> THEN <<>> ELSE Tail(rest)

\* The offset of `line.split_at(26)`.
LabelWidth == 26

\* str::split_at(mid): None when mid is past the end (the call panics),
\* else the two parts.  All characters are one byte wide here.
split_at(line, mid) ==
    IF mid > Len(line) THEN None
    ELSE Some(<<SubSeq(line, 1, mid), SubSeq(line, mid + 1, Len(line))>>)

\* The body of the `for line in lines` loop on one line: the record after
\* it, or the place of the panic.
loop_body(rec, line) ==
    LET parts == split_at(line, LabelWidth)
    IN  IF parts = None
        THEN [panic |-> "split_at", limits |-> rec]
        ELSE LET property == trim(parts[1][1])
                 values == split_whitespace(parts[1][2])
             IN  IF Len(values) < 1
                 THEN [panic |-> "values[0]", limits |-> rec]
                 ELSE IF Len(values) < 2
                 THEN [panic |-> "values[1]", limits |-> rec]
                 ELSE [panic |-> "",
                       limits |-> set_property_from_strings(
                                      rec, property, values[1], values[2])]

---------------------------------------------------------------------------
(* Paths *)

\* v / 10 and v % 10 of a u32
div10(v) ==
    LET t == (v.hi % 10) * 65536 + v.lo
    IN  [quot |-> U32(v.hi \div 10, t \div 10), rem |-> t % 10]

\* The Display of u32: decimal, no leading zeros.
RECURSIVE u32_to_string(_)
u32_to_string(v) ==
    LET d == div10(v)
        last == SubSeq(Digits, d.rem + 1, d.rem + 1)
    IN  IF d.quot = U32(0, 0) THEN last ELSE u32_to_string(d.quot) \o last

\* format!("/proc/{}/limits", pid)
file_path(pid) == "/proc/" \o u32_to_string(pid) \o "/limits"

---------------------------------------------------------------------------
(* The inputs the calls are checked on *)

\* The most items a reader holds, the header included.
MaxLines == 3

\* str::to_uppercase of ASCII text, to build letter-case variants.
RECURSIVE UpperOf(_)
UpperOf(s) ==
    IF s = "" THEN ""
    ELSE (IF Head(s) \in DOMAIN UpperOfLower THEN UpperOfLower[Head(s)]
          ELSE Head(s)) \o UpperOf(Tail(s))

\* The first letter in upper case: "max cpu time" gives "Max cpu time".
Capitalised(s) == IF s = "" THEN "" ELSE UpperOf(Head(s)) \o Tail(s)

\* The 16 labels of the arms of the match, as the source spells them.
ArmLabels ==
    << "max cpu time", "max file_size", "max data size", "max stack size",
       "max core file size", "max resident set", "max processes",
       "max open files", "max locked memory", "max address space",
       "max file locks", "max pending signals", "max msgqueue size",
       "max nice priority", "max realtime priority", "max realtime timeout" >>

\* Labels that are no arm of the match, in any letter case.
UnknownNames ==
    { "Does_not_exist", "", "Max file size", "max file size", "MAX FILE SIZE",
      "Max open files ", " Max open files", "Max open file", "Limit" }

\* The names set_property_from_strings is called with.
Names ==
    UNION { {ArmLabels[i], Capitalised(ArmLabels[i]), UpperOf(ArmLabels[i])} :
            i \in 1..Len(ArmLabels) }
    \cup UnknownNames

\* The soft and hard tokens set_property_from_strings is called with.
Tokens ==
    { "unlimited", "Unlimited", "UNLIMITED", "", "0", "123", "456", "007",
      "+5", "-1", "abc", "12a", "65536", "4294967295", "4294967296",
      "99999999999" }

\* A record with a different Limit in each field.
DistinctLimits ==
    [f \in FieldSet |->
        LET i == CHOOSE k \in 1..Len(Fields) : Fields[k] = f
        IN  Limit(Some(Small(i)), Some(Small(100 + i)))]

\* A record with every soft side at u32::MAX and every hard side unlimited.
FullLimits == [f \in FieldSet |-> Limit(Some(U32(65535, 65535)), None)]

\* The records set_property_from_strings is called on.
Records == {DefaultLimits, DistinctLimits, FullLimits}

\* s, padded with spaces on the right to width w.
RECURSIVE Pad(_, _)
Pad(s, w) == IF Len(s) >= w THEN s ELSE Pad(s \o " ", w)

\* A row as the kernel prints it: "%-25s %-20s %-20s %-10s".
Row(label, soft, hard, units) ==
    Pad(label, 25) \o " " \o Pad(soft, 20) \o " " \o Pad(hard, 20) \o " " \o units

Header == Row("Limit", "Soft Limit", "Hard Limit", "Units")

\* The items a bounded reader is made of: the header, well-formed rows
\* (a known label twice with different values, once with malformed tokens,
\* once in upper case; the kernel's file-size label; an unknown label),
\* rows that break the layout (shorter than the offset, one token, no
\* token) and a line that fails to decode.
LineSet ==
    { Line(Header),
      Line(Row("Max open files", "1024", "524288", "files")),
      Line(Row("Max open files", "unlimited", "65536", "files")),
      Line(Row("Max open files", "abc", "-1", "files")),
      Line(Row("MAX OPEN FILES", "7", "8", "files")),
      Line("Max nice priority         0                    0"),
      Line(Row("Max file size", "5", "6", "bytes")),
      Line(Row("Does_not_exist", "123", "456", "")),
      Line("Max cpu time"),
      Line("Max stack size            8388608"),
      Line(Pad("Max realtime priority", 30)),
      BadLine }

\* The sequences over S of length at most n.
BoundedSeq(S, n) == UNION {[1..k -> S] : k \in 0..n}

\* The rows of the sample table of test_from_correct_string:
\* <<label, soft, hard, units>>.
Sample ==
    << <<"Max cpu time", "unlimited", "unlimited", "seconds">>,
       <<"Max file size", "unlimited", "unlimited", "bytes">>,
       <<"Max data size", "unlimited", "unlimited", "bytes">>,
       <<"Max stack size", "8388608", "unlimited", "bytes">>,
       <<"Max core file size", "unlimited", "unlimited", "bytes">>,
       <<"Max resident set", "unlimited", "unlimited", "bytes">>,
       <<"Max processes", "62935", "62935", "processes">>,
       <<"Max open files", "1024", "524288", "files">>,
       <<"Max locked memory", "65536", "65536", "bytes">>,
       <<"Max address space", "unlimited", "unlimited", "bytes">>,
       <<"Max file locks", "unlimited", "unlimited", "locks">>,
       <<"Max pending signals", "62935", "62935", "signals">>,
       <<"Max msgqueue size", "819200", "819200", "bytes">>,
       <<"Max nice priority", "0", "0", "">>,
       <<"Max realtime priority", "99", "99", "">>,
       <<"Max realtime timeout", "unlimited", "unlimited", "us">> >>

\* The value tokens a row of the sample table is varied with.
TableTokens == {"unlimited", "0", "1024", "4294967295", "4294967296"}

\* The sample table with the values of row r replaced by soft and hard
\* (r = 0: the sample as it is).
Table(r, soft, hard) ==
    <<Line(Header)>> \o
    [i \in 1..Len(Sample) |->
        IF i = r THEN Line(Row(Sample[i][1], soft, hard, Sample[i][4]))
        ELSE Line(Row(Sample[i][1], Sample[i][2], Sample[i][3], Sample[i][4]))]

Tables ==
    {Table(0, "unlimited", "unlimited")} \cup
    {Table(r, s, h) : r \in 1..Len(Sample), s \in TableTokens, h \in TableTokens}

\* The process ids: 0, 1, an ordinary one, one above 2^16 and u32::MAX.
Pids == {Small(0), Small(1), Small(4242), U32(1, 0), U32(65535, 65535)}

\* The contents of /proc/<pid>/limits get_pid_limits is checked on.
ProcContents ==
    { <<>>, Table(0, "unlimited", "unlimited"),
      <<Line(Header), Line(Row("Max open files", "1024", "524288", "files"))>>,
      <<Line(Header), Line("Max cpu time")>> }

\* Why File::open fails: io::ErrorKind.
OpenErrors == {"NotFound", "PermissionDenied"}

NoArgs == [pid |-> Small(0), name |-> "", soft |-> "", hard |-> ""]

\* /proc/<pid>/limits: "ok" with its lines, or the error of opening it.
Proc(status, content) == [status |-> status, content |-> content]

---------------------------------------------------------------------------
(* The calls *)

\* A call of Limits::set_property_from_strings on a record.
InitSet ==
    /\ entry = "set_property_from_strings"
    /\ platform = "linux"
    /\ self \in Records
    /\ limits = self
    /\ proc = Proc("ok", <<>>)
    /\ lines = <<>>
    /\ pc = "call"

\* A call of get_limits_from_reader on a reader (a Cursor, as the tests do).
InitReader ==
    /\ entry = "get_limits_from_reader"
    /\ platform = "linux"
    /\ self = DefaultLimits
    /\ limits = DefaultLimits
    /\ \E content \in BoundedSeq(LineSet, MaxLines) \cup Tables :
          /\ proc = Proc("ok", content)
          /\ lines = content
    /\ pc = "get_limits_from_reader"

\* A call of get_pid_limits or get_own_limits on either platform.
InitQuery ==
    /\ entry \in {"get_pid_limits", "get_own_limits"}
    /\ platform \in {"linux", "other"}
    /\ self = DefaultLimits
    /\ limits = DefaultLimits
    /\ \/ \E content \in ProcContents : proc = Proc("ok", content)
       \/ \E e \in OpenErrors : proc = Proc(e, <<>>)
    /\ lines = <<>>
    /\ pc = "call"

Init ==
    /\ InitSet \/ InitReader \/ InitQuery
    /\ args = NoArgs
    /\ opens = 0
    /\ result = NoResult

\* Limits::set_property_from_strings(&mut self, name, soft_string, hard_string)
SetPropertyFromStrings ==
    /\ pc = "call"
    /\ entry = "set_property_from_strings"
    /\ \E name \in Names, soft_string \in Tokens, hard_string \in Tokens :
          /\ args' = [args EXCEPT !.name = name, !.soft = soft_string,
                                  !.hard = hard_string]
          /\ limits' = set_property_from_strings(limits, name, soft_string,
                                                 hard_string)
    /\ pc' = "done"
    /\ UNCHANGED <<platform, entry, proc, self, lines, opens, result>>

\* lib.rs get_own_limits: `let own_pid = std::process::id();
\* get_pid_limits(own_pid)`
GetOwnLimits ==
    /\ pc = "call"
    /\ entry = "get_own_limits"
    /\ \E own_pid \in Pids : args' = [args EXCEPT !.pid = own_pid]
    /\ pc' = "get_pid_limits"
    /\ UNCHANGED <<platform, entry, proc, self, lines, limits, opens, result>>

\* The caller of get_pid_limits passes a pid.
CallGetPidLimits ==
    /\ pc = "call"
    /\ entry = "get_pid_limits"
    /\ \E pid \in Pids : args' = [args EXCEPT !.pid = pid]
    /\ pc' = "get_pid_limits"
    /\ UNCHANGED <<platform, entry, proc, self, lines, limits, opens, result>>

\* A placeholder that reports the missing /proc file instead.
default_reports_missing_file(pid) == ProcFileNotFound(file_path(pid), "NotFound")

\* What get_pid_limits of src/src/default/mod.rs returns.
default_get_pid_limits(pid) == UnsupportedOS

\* default/mod.rs get_pid_limits
GetPidLimitsDefault ==
    /\ pc = "get_pid_limits"
    /\ platform = "other"
    /\ result' = default_get_pid_limits(args.pid)
    /\ pc' = "done"
    /\ UNCHANGED <<platform, entry, args, proc, self, lines, limits, opens>>

\* An open failure that loses its cause: the error always says NotFound.
open_failed_cause_lost(pid, io_error) == ProcFileNotFound(file_path(pid), "NotFound")

\* What get_pid_limits of src/src/linux/mod.rs does when File::open fails:
\* `.map_err(|io_error| ProcFileNotFound(file_path, io_error))?`
open_failed(pid, io_error) == ProcFileNotFound(file_path(pid), io_error)

\* linux/mod.rs get_pid_limits, up to the call of get_limits_from_reader
GetPidLimitsLinux ==
    /\ pc = "get_pid_limits"
    /\ platform = "linux"
    /\ opens' = opens + 1
    /\ IF proc.status = "ok"
       THEN /\ lines' = proc.content
            /\ pc' = "get_limits_from_reader"
            /\ UNCHANGED result
       ELSE /\ result' = open_failed(args.pid, proc.status)
            /\ pc' = "done"
            /\ UNCHANGED lines
    /\ UNCHANGED <<platform, entry, args, proc, self, limits>>

\* get_limits_from_reader, up to the loop: `let mut limits =
\* Limits::default(); let mut lines = ...; lines.next();`
SkipHeader ==
    /\ pc = "get_limits_from_reader"
    /\ limits' = DefaultLimits
    /\ lines' = skip_header(lines)
    /\ pc' = "for"
    /\ UNCHANGED <<platform, entry, args, proc, self, opens, result>>

\* One iteration of `for line in lines`.
ForLine ==
    /\ pc = "for"
    /\ filter_map_ok(lines) # <<>>
    /\ LET rest == filter_map_ok(lines)
           out == loop_body(limits, Head(rest).text)
       IN  /\ lines' = Tail(rest)
           /\ limits' = out.limits
           /\ IF out.panic = ""
              THEN UNCHANGED <<pc, result>>
              ELSE /\ pc' = "done"
                   /\ result' = Panicked(out.panic)
    /\ UNCHANGED <<platform, entry, args, proc, self, opens>>

\* The iterator is exhausted: `Ok(limits)`.
ReturnOk ==
    /\ pc = "for"
    /\ filter_map_ok(lines) = <<>>
    /\ lines' = <<>>
    /\ result' = Ok(limits)
    /\ pc' = "done"
    /\ UNCHANGED <<platform, entry, args, proc, self, limits, opens>>

Next ==
    \/ SetPropertyFromStrings
    \/ GetOwnLimits
    \/ CallGetPidLimits
    \/ GetPidLimitsDefault
    \/ GetPidLimitsLinux
    \/ SkipHeader
    \/ ForLine
    \/ ReturnOk

Spec == Init /\ [][Next]_vars

---------------------------------------------------------------------------
(* The vocabulary of the properties *)

\* A call of get_limits_from_reader has ended, directly or under
\* get_pid_limits.
ReaderDone ==
    /\ pc = "done"
    /\ result.kind \in {"Ok", "panic"}
    /\ entry # "set_property_from_strings"

\* The call of set_property_from_strings has returned.
SetDone == pc = "done" /\ entry = "set_property_from_strings"

\* The 16 known labels in upper case.
UpperArmLabels == [i \in 1..Len(ArmLabels) |-> UpperOf(ArmLabels[i])]

\* The positions of the known labels a name equals up to letter case.
KnownAs(name) ==
    LET upper == UpperOf(name)
    IN  {i \in 1..Len(ArmLabels) : upper = UpperArmLabels[i]}

\* The step of set_property_from_strings, and one turn of the loop on the
\* next line that decodes.
SetStep == pc = "call" /\ entry = "set_property_from_strings" /\ pc' = "done"

LoopStep == pc = "for" /\ filter_map_ok(lines) # <<>>

NextLine == Head(filter_map_ok(lines)).text

\* The label and the value tokens of a row, by the table's layout: the
\* label in columns 0-25, the tokens after it.
LabelOf(text) == trim(SubSeq(text, 1, LabelWidth))

TokensOf(text) == split_whitespace(SubSeq(text, LabelWidth + 1, Len(text)))

\* A row that keeps the layout: at least the offset long, two tokens or more.
WellFormedRow(text) == Len(text) >= LabelWidth /\ Len(TokensOf(text)) >= 2

\* The Limit a well-formed row states.
LimitOfRow(text) ==
    Limit(parse_side(TokensOf(text)[1]), parse_side(TokensOf(text)[2]))

\* The input is a header and 16 rows labelled as the sample table.
IsSampleTable(content) ==
    /\ Len(content) = Len(Sample) + 1
    /\ \A i \in 1..Len(content) : content[i].ok
    /\ \A i \in 1..Len(Sample) :
          /\ WellFormedRow(content[i + 1].text)
          /\ LabelOf(content[i + 1].text) = Sample[i][1]

---------------------------------------------------------------------------
(* C1 *)

\* C1: get_limits_from_reader never crashes: whatever the lines are, rows
\* shorter than the offset of 26 and rows with fewer than two value tokens
\* included, the call returns a Limits record.
C1_ReaderNeverPanics == ReaderDone => result.kind = "Ok"

---------------------------------------------------------------------------
(* C2 *)

\* C2: parsing a header and the 16 rows labelled as the sample table gives
\* a record in which each of the 16 fields is the soft/hard pair of its own
\* row, whatever the value tokens of the rows are.
C2_SampleTableFieldsMatchRows ==
    (ReaderDone /\ IsSampleTable(proc.content)) =>
        /\ result.kind = "Ok"
        /\ \A i \in 1..Len(Sample) :
              result.value[1][Fields[i]] = LimitOfRow(proc.content[i + 1].text)

---------------------------------------------------------------------------
(* C3 *)

\* C3: a name that is one of the 16 labels of the match up to letter case
\* sets the field of that label to the Limit built from the two tokens, and
\* leaves the other 15 fields as they were before the call.
C3_KnownLabelSetsExactlyItsField ==
    SetDone =>
        \A i \in KnownAs(args.name) :
            /\ limits[Fields[i]] = Limit(parse_side(args.soft), parse_side(args.hard))
            /\ \A f \in FieldSet \ {Fields[i]} : limits[f] = self[f]

\* "MAX FILE LOCKS" with "123" and "456", on a record with a different
\* Limit in every field, has set max_file_locks and nothing else.
C3_Witness ==
    /\ SetDone
    /\ args.name = "MAX FILE LOCKS" /\ args.soft = "123" /\ args.hard = "456"
    /\ self = DistinctLimits
    /\ limits = [self EXCEPT !["max_file_locks"] =
                    Limit(Some(Small(123)), Some(Small(456)))]
    /\ limits # self

---------------------------------------------------------------------------
(* C4 *)

\* C4: a label that matches none of the 16 known labels up to letter case
\* is a no-op: set_property_from_strings leaves the record as it was,
\* whatever the tokens and the record, and a well-formed data row with such
\* a label leaves the record as it was and the loop goes on.
C4_UnknownLabelIsNoOp ==
    [][ /\ (SetStep /\ KnownAs(args'.name) = {}) => limits' = limits
        /\ (LoopStep /\ WellFormedRow(NextLine) /\ KnownAs(LabelOf(NextLine)) = {}) =>
              /\ limits' = limits
              /\ pc' = "for"
              /\ result' = NoResult ]_vars

\* A row labelled "Does_not_exist" before a row of a known label: the
\* known row is in the record returned, and nothing else is.
C4_Witness ==
    /\ ReaderDone
    /\ proc.content = << Line(Header),
                         Line(Row("Does_not_exist", "123", "456", "")),
                         Line(Row("Max open files", "1024", "524288", "files")) >>
    /\ result = Ok([DefaultLimits EXCEPT
                       !["max_open_files"] = Limit(Some(Small(1024)), Some(U32(8, 0)))])

---------------------------------------------------------------------------
(* C5 *)

\* C5: of the 16 known labels exactly one is spelled with an underscore
\* and it is matched as spelled: max_file_size is set by a name that is
\* "max file_size" up to letter case and by no other name, and a name that
\* is "max file size" up to letter case leaves the whole record as it was.
C5_FileSizeLabelHasUnderscore ==
    SetDone =>
        LET upper == UpperOf(args.name)
        IN  /\ upper = "MAX FILE_SIZE" =>
                  limits = [self EXCEPT !["max_file_size"] =
                               Limit(parse_side(args.soft), parse_side(args.hard))]
            /\ upper = "MAX FILE SIZE" => limits = self
            /\ upper # "MAX FILE_SIZE" => limits["max_file_size"] = self["max_file_size"]
            /\ (limits # self /\ "_" \in CharsOf(args.name)) => upper = "MAX FILE_SIZE"

\* "Max file size" with "123" and "456" on a record with a different Limit
\* in every field: the record is as before.
C5_Witness ==
    /\ SetDone
    /\ args.name = "Max file size" /\ args.soft = "123" /\ args.hard = "456"
    /\ self = DistinctLimits
    /\ limits = DistinctLimits

---------------------------------------------------------------------------
(* C6 *)

\* The text is one decimal digit or more.
IsDigits(s) == s # "" /\ CharsOf(s) \subseteq CharsOf(Digits)

\* The token without the one plus sign a decimal number may start with.
Unsigned(token) ==
    IF token # "" /\ Head(token) = "+" THEN Tail(token) ELSE token

\* Decimal digits without their leading zeros.
RECURSIVE StripZeros(_)
StripZeros(d) == IF Len(d) > 1 /\ Head(d) = "0" THEN StripZeros(Tail(d)) ELSE d

\* a <= b for two digit texts of the same length.
RECURSIVE DigitsLeq(_, _)
DigitsLeq(a, b) ==
    IF a = "" THEN TRUE
    ELSE IF DigitValue[Head(a)] < DigitValue[Head(b)] THEN TRUE
    ELSE IF DigitValue[Head(a)] > DigitValue[Head(b)] THEN FALSE
    ELSE DigitsLeq(Tail(a), Tail(b))

\* 2^32 - 1 in decimal
U32MaxText == "4294967295"

\* The number the digits write is within 0..2^32-1.
InU32Range(d) ==
    LET c == StripZeros(d)
    IN  \/ Len(c) < Len(U32MaxText)
        \/ Len(c) = Len(U32MaxText) /\ DigitsLeq(c, U32MaxText)

\* One side of a Limit is what its token says: none for "unlimited", the
\* number n for a decimal token of a value n within 0..2^32-1, none for
\* every other token.
SideIs(side, token) ==
    IF token # "unlimited" /\ IsDigits(Unsigned(token)) /\ InU32Range(Unsigned(token))
    THEN /\ side # None
         /\ side[1].hi \in 0..65535 /\ side[1].lo \in 0..65535
         /\ u32_to_string(side[1]) = StripZeros(Unsigned(token))
    ELSE side = None

\* C6: each side of the Limit a known label gets is derived from its own
\* token alone: "unlimited" (exactly) gives none, a decimal token within
\* 0..2^32-1 gives that number, every other token gives none; no token
\* makes the call fail.
C6_SideFromOwnToken ==
    SetDone =>
        \A i \in KnownAs(args.name) :
            /\ SideIs(limits[Fields[i]].soft, args.soft)
            /\ SideIs(limits[Fields[i]].hard, args.hard)

\* 2^32-1 as the soft token and 2^32 as the hard token: the soft side is
\* the number, the hard side is none.
C6_Witness ==
    /\ SetDone
    /\ args.name = "Max open files"
    /\ args.soft = "4294967295" /\ args.hard = "4294967296"
    /\ limits["max_open_files"] = Limit(Some(U32(65535, 65535)), None)

---------------------------------------------------------------------------
(* C7 *)

\* What parsing the rows gives from record rec on: every row that decodes
\* goes through the loop body in input order.
RECURSIVE RowsOutcome(_, _)
RowsOutcome(rec, rows) ==
    IF rows = <<>> THEN Ok(rec)
    ELSE IF ~Head(rows).ok THEN RowsOutcome(rec, Tail(rows))
    ELSE LET out == loop_body(rec, Head(rows).text)
         IN  IF out.panic # "" THEN Panicked(out.panic)
             ELSE RowsOutcome(out.limits, Tail(rows))

\* C7: the first line of the input is discarded unconditionally: the
\* result is that of the lines after the first, whatever the first line
\* is, and an input of zero lines or of one line gives the default record.
C7_FirstLineDiscarded ==
    ReaderDone =>
        /\ Len(proc.content) <= 1 => result = Ok(DefaultLimits)
        /\ Len(proc.content) >= 1 =>
              result = RowsOutcome(DefaultLimits, Tail(proc.content))

\* C7, for a first line that decodes: then the result is that of the lines
\* after the first.
C7_FirstTextLineDiscarded ==
    (ReaderDone /\ (proc.content = <<>> \/ Head(proc.content).ok)) =>
        /\ Len(proc.content) <= 1 => result = Ok(DefaultLimits)
        /\ Len(proc.content) >= 1 =>
              result = RowsOutcome(DefaultLimits, Tail(proc.content))

---------------------------------------------------------------------------
(* C8 *)

\* The pids in decimal.
PidText(pid) ==
    CASE pid = Small(0) -> "0"
      [] pid = Small(1) -> "1"
      [] pid = Small(4242) -> "4242"
      [] pid = U32(1, 0) -> "65536"
      [] pid = U32(65535, 65535) -> "4294967295"

IsQuery == entry \in {"get_pid_limits", "get_own_limits"}

\* C8: on Linux, when /proc/<pid>/limits cannot be opened, get_pid_limits
\* returns ProcFileNotFound with the path "/proc/<pid>/limits" and the
\* cause of the failure; it returns no Limits record, does not run the
\* parser, and opens once.
C8_OpenFailureIsProcFileNotFound ==
    (IsQuery /\ platform = "linux" /\ proc.status # "ok") =>
        /\ pc \notin {"get_limits_from_reader", "for"}
        /\ opens <= 1
        /\ result.kind \in {"none", "Err"}
        /\ limits = DefaultLimits
        /\ pc = "done" =>
              /\ opens = 1
              /\ result = ProcFileNotFound(
                              "/proc/" \o PidText(args.pid) \o "/limits", proc.status)

\* get_pid_limits(u32::MAX) where no such process exists.
C8_Witness ==
    /\ entry = "get_pid_limits" /\ platform = "linux" /\ pc = "done"
    /\ args.pid = U32(65535, 65535)
    /\ proc.status = "NotFound"
    /\ result.value = <<"ProcFileNotFound", "/proc/4294967295/limits", "NotFound">>
    /\ opens = 1

---------------------------------------------------------------------------
(* C9 *)

\* C9: on a platform that is not Linux every query ends with
\* UnsupportedOS, get_own_limits through get_pid_limits; no file is opened,
\* the parser does not run, and no Limits record is returned.
C9_UnsupportedAlways ==
    (IsQuery /\ platform = "other") =>
        /\ opens = 0
        /\ pc \in {"call", "get_pid_limits", "done"}
        /\ result.kind \in {"none", "Err"}
        /\ limits = DefaultLimits
        /\ pc = "done" => result = UnsupportedOS

\* get_own_limits of process 4242, whose /proc file exists, on a platform
\* that is not Linux.
C9_Witness ==
    /\ entry = "get_own_limits" /\ platform = "other" /\ pc = "done"
    /\ args.pid = Small(4242)
    /\ proc.status = "ok"
    /\ result = UnsupportedOS
    /\ opens = 0

---------------------------------------------------------------------------
(* C10 *)

IsOk(item) == item.ok

\* The data rows of an input: the lines that decode, but the first of them.
DataRows(content) ==
    LET texts == SelectSeq(content, IsOk)
    IN  IF texts = <<>> THEN <<>> ELSE Tail(texts)

\* The largest element of a non-empty set of numbers.
Max(S) == CHOOSE x \in S : \A y \in S : y <= x

\* C10: rows are applied in input order and a row overwrites the whole
\* Limit of its field: after a header and well-formed rows, each field is
\* the Limit of the last row with the field's label, the default when no
\* row has it.
C10_LastRowWins ==
    ReaderDone =>
        LET rows == DataRows(proc.content)
            label == [j \in 1..Len(rows) |-> KnownAs(LabelOf(rows[j].text))]
        IN  (\A j \in 1..Len(rows) : WellFormedRow(rows[j].text)) =>
                /\ result.kind = "Ok"
                /\ \A i \in 1..Len(Fields) :
                      LET with == {j \in 1..Len(rows) : i \in label[j]}
                      IN  result.value[1][Fields[i]] =
                              IF with = {} THEN DefaultLimit
                              ELSE LimitOfRow(rows[Max(with)].text)

\* "Max open files" with 1024 and 524288, then again with the tokens "abc"
\* and "-1": the field is back to {none, none}.
C10_Witness ==
    /\ ReaderDone
    /\ proc.content = << Line(Header),
                         Line(Row("Max open files", "1024", "524288", "files")),
                         Line(Row("Max open files", "abc", "-1", "files")) >>
    /\ result = Ok(DefaultLimits)

=============================================================================
